---- MODULE Spec2Model ----
(***************************************************************************)
(* Model of the ext-screencopy capture session of wayvnc                   *)
(* (src/src/ext-screencopy.c): the per-output session object, the two      *)
(* buffer pools it borrows from, and the compositor that sends it the      *)
(* zext_screencopy_surface_v1 events.                                      *)
(***************************************************************************)
EXTENDS Integers, Sequences, FiniteSets

\* ---------------------------------------------------------------- bounds
MaxStarts == 3      \* start calls made by the caller in one run
MaxBufs == 2        \* buffers the output pool may allocate
MaxCursorBufs == 2  \* buffers the cursor pool may allocate
MaxTransfers == 1   \* receive_data calls in one run
MaxChunks == 1      \* reads with data per transfer
MaxSources == 2     \* data sources the compositor creates in one run
MaxCoord == 1       \* origin of the second reported damage rectangle
RectW == 2          \* side of a reported damage rectangle

NULL == 0
\* a pool pointer that is NULL (a present pool carries its geometry, 0 at first)
NoPool == -1

OutBufs == 1..MaxBufs
CurBufs == 1..MaxCursorBufs

\* geometries a buffer_info event may report; 0 is the calloc'ed descriptor.
\* have_linux_dmabuf is never set, so init_done always reads the wl_shm fields.
Geoms == {1, 2}

\* ------------------------------------------------------- damage regions
\* A region is a set of unit cells; a rectangle is <<x, y, width, height>>.
GridMax == MaxCoord + RectW - 1
Grid == 0..GridMax

\* two overlapping or adjacent squares, as (0,0,10,10) and (5,5,10,10)
DamageRects == {<<k, k, RectW, RectW>> : k \in {0, MaxCoord}}

Cells(r) == {c \in Grid \X Grid :
                /\ c[1] >= r[1] /\ c[1] < r[1] + r[3]
                /\ c[2] >= r[2] /\ c[2] < r[2] + r[4]}

pixman_region_union_rect(region, r) == region \cup Cells(r)

RowCells(region, y) == {x \in Grid : <<x, y>> \in region}

Runs(S) == {run \in Grid \X Grid :
               /\ run[1] <= run[2]
               /\ \A x \in run[1]..run[2] : x \in S
               /\ (run[1] - 1) \notin S
               /\ (run[2] + 1) \notin S}

Bands(region) == {b \in Grid \X Grid :
               /\ b[1] <= b[2]
               /\ RowCells(region, b[1]) # {}
               /\ \A y \in b[1]..b[2] : RowCells(region, y) = RowCells(region, b[1])
               /\ (b[1] = 0 \/ RowCells(region, b[1] - 1) # RowCells(region, b[1]))
               /\ (b[2] = GridMax \/ RowCells(region, b[2] + 1) # RowCells(region, b[1]))}

\* boxes <<x1, y1, x2, y2>> of the y-x banded decomposition of a region
Boxes(region) == UNION {{<<run[1], b[1], run[2] + 1, b[2] + 1>> :
                            run \in Runs(RowCells(region, b[1]))} :
                        b \in Bands(region)}

BoxBefore(a, b) == a[2] < b[2] \/ (a[2] = b[2] /\ a[1] < b[1])

RECURSIVE SortBoxes(_)
SortBoxes(S) == IF S = {} THEN <<>>
                ELSE LET m == CHOOSE a \in S : \A b \in S \ {a} : BoxBefore(a, b)
                     IN <<m>> \o SortBoxes(S \ {m})

pixman_region_rectangles(region) == SortBoxes(Boxes(region))

\* ------------------------------------------------------------------ state
VARIABLES
    \* struct ext_screencopy
    surface,            \* NULL or the id of the surface handle
    render_cursors,
    buffer,             \* NULL or the in-flight output buffer
    cursor_buffer,      \* NULL or the last acquired cursor buffer
    have_buffer_info,
    should_start,
    shall_be_immediate,
    have_cursor,
    output,             \* output.wl_shm_* geometry
    cursor,             \* cursor.wl_shm_* geometry
    \* buffer pools and their buffers
    pool,               \* geometry the output pool was last resized to
    cursor_pool,        \* geometry the cursor pool was last resized to
    obufs,              \* output buffers: owner, buffer_damage, frame_damage
    cbufs,              \* cursor buffers: owner, buffer_damage, frame_damage
    \* compositor side of the current surface
    nsurf,              \* surfaces handed out so far (id of the newest)
    srv_init,           \* init_done still to be sent on the current surface
    srv_commits,        \* commits received and not yet resolved
    srv_cursor,         \* cursor_info still to be sent for the last commit
    \* process
    status,             \* "live", "crashed" or "destroyed"
    \* observation of the run
    calls,              \* the calls that handler made, in order
    nStart,             \* start calls that returned 0
    nCommit,            \* commit requests sent
    nDone,              \* on_done invocations
    overlap,            \* a start was issued before the previous on_done
    sinceRes,           \* commits since the last ready, failed or reconfig
    presence,           \* the last cursor presence signal
    init_seen,          \* init_done was handled on the current surface
    stale0,             \* buffer_damage of the output buffer at its acquire
    reported,           \* cells reported by damage events since the commit
    data_control,       \* struct data_control: offer, selections, cb_data, cb_len
    sources,            \* data sources created at the compositor and still alive
    transfers,          \* one record per receive_data call: context, pipe ends
    send_log            \* descriptor operations of the last source send handler

sessVars == <<surface, render_cursors, buffer, cursor_buffer, have_buffer_info,
              should_start, shall_be_immediate, have_cursor, output, cursor>>
poolVars == <<pool, cursor_pool, obufs, cbufs>>
srvVars  == <<nsurf, srv_init, srv_commits, srv_cursor>>
obsVars  == <<calls, nStart, nCommit, nDone, overlap, sinceRes,
              presence, init_seen, stale0, reported>>
\* struct data_control, the compositor's data sources, and the pipe transfers
clipVars == <<data_control, sources, transfers, send_log>>
vars == <<sessVars, poolVars, srvVars, status, obsVars, clipVars>>

FreshBuf == [owner |-> "fresh", buffer_damage |-> {}, frame_damage |-> {}]
FreshCursorBuf == [owner |-> "fresh", buffer_damage |-> FALSE, frame_damage |-> FALSE]

\* data_control_init: no selection owned, nothing to paste, no transfer yet
data_control_init ==
    /\ data_control = [manager |-> TRUE, offer |-> NULL, selection |-> NULL,
                       primary_selection |-> NULL, cb_data |-> NULL, cb_len |-> 0]
    /\ sources = [created |-> 0, live |-> {}]
    /\ transfers = <<>>
    /\ send_log = <<>>

\* ext_screencopy_create having returned a session
Init ==
    /\ surface = 1
    /\ render_cursors \in BOOLEAN
    /\ buffer = NULL
    /\ cursor_buffer = NULL
    /\ have_buffer_info = FALSE
    /\ should_start = FALSE
    /\ shall_be_immediate = FALSE
    /\ have_cursor = FALSE
    /\ output = 0
    /\ cursor = 0
    /\ pool = 0
    /\ cursor_pool = 0
    /\ obufs = [b \in OutBufs |-> FreshBuf]
    /\ cbufs = [c \in CurBufs |-> FreshCursorBuf]
    /\ nsurf = 1
    /\ srv_init = TRUE
    /\ srv_commits = 0
    /\ srv_cursor = FALSE
    /\ status = "live"
    /\ calls = <<>>
    /\ nStart = 0
    /\ nCommit = 0
    /\ nDone = 0
    /\ overlap = FALSE
    /\ sinceRes = 0
    /\ presence = "none"
    /\ init_seen = FALSE
    /\ stale0 = {}
    /\ reported = {}
    /\ data_control_init


\* ------------------------------------------------ buffer pool collaborator
Min(S) == CHOOSE m \in S : \A n \in S : m <= n

\* a reusable buffer when the pool holds one, a freshly allocated one otherwise
wv_buffer_pool_acquire(bufs) ==
    LET pooled == {b \in DOMAIN bufs : bufs[b].owner = "pool"}
        fresh  == {b \in DOMAIN bufs : bufs[b].owner = "fresh"}
    IN IF pooled # {} THEN pooled
       ELSE IF fresh # {} THEN {Min(fresh)}
       ELSE {}

\* the buffer goes back to the pool and its frame damage is cleared
wv_buffer_pool_release(bufs, b, empty) ==
    [bufs EXCEPT ![b].owner = "pool", ![b].frame_damage = empty]

\* every registered buffer of the domain becomes stale in the region
wv_buffer_registry_damage_all(bufs, region) ==
    [b \in DOMAIN bufs |->
        IF bufs[b].owner = "fresh" THEN bufs[b]
        ELSE [bufs[b] EXCEPT !.buffer_damage = @ \cup region]]

wv_buffer_registry_damage_all_cursor(bufs, region) ==
    [b \in DOMAIN bufs |->
        IF bufs[b].owner = "fresh" THEN bufs[b]
        ELSE [bufs[b] EXCEPT !.buffer_damage = @ \/ region]]

wv_buffer_damage_rect(bufs, b, r) ==
    [bufs EXCEPT ![b].frame_damage = pixman_region_union_rect(@, r)]

wv_buffer_damage_whole(bufs, b) ==
    [bufs EXCEPT ![b].frame_damage = TRUE]

\* ------------------------------------------------------------- the session
RECURSIVE DamageHints(_)
DamageHints(boxes) ==
    IF boxes = <<>> THEN <<>>
    ELSE LET bx == Head(boxes)
         IN <<<<"damage_buffer", bx[1], bx[2], bx[3] - bx[1], bx[4] - bx[2]>>>>
            \o DamageHints(Tail(boxes))

\* the variables ext_screencopy_schedule_capture and its commit determine
capVars == <<buffer, cursor_buffer, obufs, cbufs, status, srv_commits,
             srv_cursor, nCommit, sinceRes, stale0, reported>>

\* ext_screencopy_schedule_capture committing before it attaches the cursor buffer
ext_screencopy_schedule_capture_commit_early(immediate, prefix) ==
    \E b \in wv_buffer_pool_acquire(obufs) :
       LET acq == <<<<"pool_acquire", "output", b>>>> IN
       IF surface = NULL
       THEN /\ status' = "crashed"
            /\ calls' = prefix \o acq
            /\ UNCHANGED <<buffer, cursor_buffer, obufs, cbufs, srv_commits,
                           srv_cursor, nCommit, sinceRes, stale0, reported>>
       ELSE
         LET hints == DamageHints(pixman_region_rectangles(obufs[b].buffer_damage))
             commit == <<<<"commit", immediate, render_cursors>>>>
             out == acq \o <<<<"attach_buffer", b>>>> \o hints
         IN
         /\ buffer' = b
         /\ obufs' = [obufs EXCEPT ![b].owner = "session"]
         /\ IF have_cursor
            THEN \E c \in wv_buffer_pool_acquire(cbufs) :
                   /\ cursor_buffer' = c
                   /\ cbufs' = [cbufs EXCEPT ![c].owner = "session"]
                   /\ calls' = prefix \o out \o commit
                        \o <<<<"pool_acquire", "cursor", c>>>>
                        \o (IF cbufs[c].buffer_damage
                            THEN <<<<"damage_cursor_buffer", c>>>> ELSE <<>>)
                        \o <<<<"attach_cursor_buffer", c>>>>
            ELSE /\ calls' = prefix \o out \o commit
                 /\ UNCHANGED <<cursor_buffer, cbufs>>
         /\ srv_commits' = srv_commits + 1
         /\ srv_cursor' = have_cursor
         /\ nCommit' = nCommit + 1
         /\ sinceRes' = sinceRes + 1
         /\ stale0' = obufs[b].buffer_damage
         /\ reported' = {}
         /\ UNCHANGED status

ext_screencopy_schedule_capture(immediate, prefix) ==
    \E b \in wv_buffer_pool_acquire(obufs) :
       LET acq == <<<<"pool_acquire", "output", b>>>> IN
       IF surface = NULL
       THEN \* attach_buffer on a NULL proxy
            /\ status' = "crashed"
            /\ calls' = prefix \o acq
            /\ UNCHANGED <<buffer, cursor_buffer, obufs, cbufs, srv_commits,
                           srv_cursor, nCommit, sinceRes, stale0, reported>>
       ELSE
         LET hints == DamageHints(pixman_region_rectangles(obufs[b].buffer_damage))
             commit == <<<<"commit", immediate, render_cursors>>>>
             out == acq \o <<<<"attach_buffer", b>>>> \o hints
         IN
         /\ buffer' = b
         /\ obufs' = [obufs EXCEPT ![b].owner = "session"]
         /\ IF have_cursor
            THEN \E c \in wv_buffer_pool_acquire(cbufs) :
                   /\ cursor_buffer' = c
                   /\ cbufs' = [cbufs EXCEPT ![c].owner = "session"]
                   /\ calls' = prefix \o out
                        \o <<<<"pool_acquire", "cursor", c>>>>
                        \o (IF cbufs[c].buffer_damage
                            THEN <<<<"damage_cursor_buffer", c>>>> ELSE <<>>)
                        \o <<<<"attach_cursor_buffer", c>>>>
                        \o commit
            ELSE /\ calls' = prefix \o out \o commit
                 /\ UNCHANGED <<cursor_buffer, cbufs>>
         /\ srv_commits' = srv_commits + 1
         /\ srv_cursor' = have_cursor
         /\ nCommit' = nCommit + 1
         /\ sinceRes' = sinceRes + 1
         /\ stale0' = obufs[b].buffer_damage
         /\ reported' = {}
         /\ UNCHANGED status

\* destroy the old handle, ask the manager for a new one
ext_screencopy_init_surface(ok) ==
    /\ surface' = IF ok THEN nsurf + 1 ELSE NULL
    /\ nsurf' = IF ok THEN nsurf + 1 ELSE nsurf
    /\ srv_init' = ok
    /\ srv_commits' = 0
    /\ srv_cursor' = FALSE
    /\ init_seen' = FALSE

InitSurfaceCalls(ok) ==
    (IF surface # NULL THEN <<<<"surface_destroy", surface>>>> ELSE <<>>)
    \o <<<<"capture_output", IF ok THEN nsurf + 1 ELSE NULL>>>>

\* ext_screencopy_start with the pending immediate flag accumulated, not overwritten
ext_screencopy_start_additive(immediate) ==
    /\ status = "live"
    /\ IF ~have_buffer_info
       THEN /\ should_start' = TRUE
            /\ shall_be_immediate' = (shall_be_immediate \/ immediate)
            /\ calls' = <<>>
            /\ UNCHANGED capVars
       ELSE /\ ext_screencopy_schedule_capture(immediate, <<>>)
            /\ UNCHANGED <<should_start, shall_be_immediate>>
    /\ nStart' = IF status' = "live" THEN nStart + 1 ELSE nStart
    /\ overlap' = (overlap \/ nStart > nDone)
    /\ UNCHANGED <<surface, render_cursors, clipVars, have_buffer_info, have_cursor,
                   output, cursor, pool, cursor_pool, nsurf, srv_init,
                   nDone, presence, init_seen>>

\* ext_screencopy_start falling through to the capture after recording the request
ext_screencopy_start_fallthrough(immediate) ==
    /\ status = "live"
    /\ IF ~have_buffer_info
       THEN /\ should_start' = TRUE
            /\ shall_be_immediate' = immediate
       ELSE UNCHANGED <<should_start, shall_be_immediate>>
    /\ ext_screencopy_schedule_capture(immediate, <<>>)
    /\ nStart' = IF status' = "live" THEN nStart + 1 ELSE nStart
    /\ overlap' = (overlap \/ nStart > nDone)
    /\ UNCHANGED <<surface, render_cursors, clipVars, have_buffer_info, have_cursor,
                   output, cursor, pool, cursor_pool, nsurf, srv_init,
                   nDone, presence, init_seen>>

ext_screencopy_start(immediate) ==
    /\ status = "live"
    /\ IF ~have_buffer_info
       THEN /\ should_start' = TRUE
            /\ shall_be_immediate' = immediate
            /\ calls' = <<>>
            /\ UNCHANGED capVars
       ELSE /\ ext_screencopy_schedule_capture(immediate, <<>>)
            /\ UNCHANGED <<should_start, shall_be_immediate>>
    /\ nStart' = IF status' = "live" THEN nStart + 1 ELSE nStart
    /\ overlap' = (overlap \/ nStart > nDone)
    /\ UNCHANGED <<surface, render_cursors, clipVars, have_buffer_info, have_cursor,
                   output, cursor, pool, cursor_pool, nsurf, srv_init,
                   nDone, presence, init_seen>>

ext_screencopy_stop ==
    /\ status = "live"
    /\ calls' = <<>>
    /\ UNCHANGED <<sessVars, clipVars, poolVars, srvVars, status, nStart, nCommit, nDone,
                   overlap, sinceRes, presence, init_seen, stale0, reported>>

\* Events reach the session only through the listener of its current surface.
\* The compositor sends buffer_info and init_done while a negotiation is open
\* (after the surface is created and after each reconfig), sends damage,
\* transform, commit_time, cursor_info, ready and failed only for a commit it
\* has received and not resolved, and sends cursor_info before ready when a
\* cursor buffer was attached. A reconfig leaves an unresolved commit to be
\* resolved by a later ready or failed.
Delivered == status = "live" /\ surface # NULL

\* surface_handle_reconfig forgetting the cursor as well
surface_handle_reconfig_forget_cursor ==
    /\ Delivered
    /\ have_buffer_info' = FALSE
    /\ have_cursor' = FALSE
    /\ srv_init' = TRUE
    /\ sinceRes' = 0
    /\ calls' = <<>>
    /\ UNCHANGED <<surface, render_cursors, clipVars, buffer, cursor_buffer, should_start,
                   shall_be_immediate, output, cursor, poolVars,
                   nsurf, srv_commits, srv_cursor, status, nStart, nCommit,
                   nDone, overlap, presence, init_seen, stale0, reported>>

\* surface_handle_reconfig dropping only the dmabuf flag
surface_handle_reconfig_keep_info ==
    /\ Delivered
    /\ srv_init' = TRUE
    /\ sinceRes' = 0
    /\ calls' = <<>>
    /\ UNCHANGED <<surface, render_cursors, clipVars, buffer, cursor_buffer,
                   have_buffer_info, should_start, shall_be_immediate,
                   have_cursor, output, cursor, poolVars, nsurf, srv_commits,
                   srv_cursor, status, nStart, nCommit, nDone, overlap,
                   presence, init_seen, stale0, reported>>

surface_handle_reconfig ==
    /\ Delivered
    /\ have_buffer_info' = FALSE
    /\ srv_init' = TRUE
    /\ sinceRes' = 0
    /\ calls' = <<>>
    /\ UNCHANGED <<surface, render_cursors, clipVars, buffer, cursor_buffer, should_start,
                   shall_be_immediate, have_cursor, output, cursor, poolVars,
                   nsurf, srv_commits, srv_cursor, status, nStart, nCommit,
                   nDone, overlap, presence, init_seen, stale0, reported>>

BufferTypes == {"WL_SHM", "DMABUF"}

surface_handle_buffer_info(type, g) ==
    /\ Delivered
    /\ srv_init
    /\ output' = IF type = "WL_SHM" THEN g ELSE output
    /\ calls' = <<>>
    /\ UNCHANGED <<surface, render_cursors, clipVars, buffer, cursor_buffer,
                   have_buffer_info, should_start, shall_be_immediate,
                   have_cursor, cursor, poolVars, srvVars, status, nStart,
                   nCommit, nDone, overlap, sinceRes, presence, init_seen,
                   stale0, reported>>

surface_handle_cursor_buffer_info(type, g) ==
    /\ Delivered
    /\ srv_init
    /\ cursor' = IF type = "WL_SHM" THEN g ELSE cursor
    /\ calls' = <<>>
    /\ UNCHANGED <<surface, render_cursors, clipVars, buffer, cursor_buffer,
                   have_buffer_info, should_start, shall_be_immediate,
                   have_cursor, output, poolVars, srvVars, status, nStart,
                   nCommit, nDone, overlap, sinceRes, presence, init_seen,
                   stale0, reported>>

\* surface_handle_init_done leaving the pending flags set
surface_handle_init_done_rearm ==
    /\ Delivered
    /\ srv_init
    /\ pool' = output
    /\ cursor_pool' = cursor
    /\ LET resize == <<<<"pool_resize", "output", output>>,
                       <<"pool_resize", "cursor", cursor>>>>
       IN IF should_start
          THEN ext_screencopy_schedule_capture(shall_be_immediate, resize)
          ELSE /\ calls' = resize
               /\ UNCHANGED capVars
    /\ UNCHANGED <<should_start, shall_be_immediate>>
    /\ have_buffer_info' = TRUE
    /\ srv_init' = FALSE
    /\ init_seen' = TRUE
    /\ UNCHANGED <<surface, render_cursors, clipVars, have_cursor, output, cursor,
                   nsurf, nStart, nDone, overlap, presence>>

\* a handler dereferenced NULL or failed its assertion: the process is gone
Crash ==
    /\ status' = "crashed"
    /\ calls' = <<>>
    /\ UNCHANGED <<sessVars, clipVars, poolVars, srvVars, nStart, nCommit, nDone,
                   overlap, sinceRes, presence, init_seen, stale0, reported>>

\* Resizing a pool that was never created dereferences NULL.
surface_handle_init_done ==
    /\ Delivered
    /\ srv_init
    /\ IF pool = NoPool \/ cursor_pool = NoPool
       THEN Crash
       ELSE
       /\ pool' = output
       /\ cursor_pool' = cursor
       /\ LET resize == <<<<"pool_resize", "output", output>>,
                          <<"pool_resize", "cursor", cursor>>>>
          IN IF should_start
             THEN /\ ext_screencopy_schedule_capture(shall_be_immediate, resize)
                  /\ should_start' = FALSE
                  /\ shall_be_immediate' = FALSE
             ELSE /\ calls' = resize
                  /\ UNCHANGED capVars
                  /\ UNCHANGED <<should_start, shall_be_immediate>>
       /\ have_buffer_info' = TRUE
       /\ srv_init' = FALSE
       /\ init_seen' = TRUE
       /\ UNCHANGED <<surface, render_cursors, clipVars, have_cursor, output, cursor,
                      nsurf, nStart, nDone, overlap, presence>>

Transforms == {0, 1}

surface_handle_transform(transform) ==
    /\ Delivered
    /\ srv_commits > 0
    /\ IF buffer = NULL
       THEN Crash
       ELSE /\ calls' = <<<<"nvnc_fb_set_transform", buffer, transform>>>>
            /\ UNCHANGED <<sessVars, clipVars, poolVars, srvVars, status, nStart, nCommit,
                           nDone, overlap, sinceRes, presence, init_seen,
                           stale0, reported>>

\* surface_handle_ready keeping its reference to the delivered buffer
surface_handle_ready_keep ==
    /\ Delivered
    /\ srv_commits > 0
    /\ ~srv_cursor
    /\ IF buffer = NULL
       THEN Crash
       ELSE LET region == obufs[buffer].frame_damage
                damaged == wv_buffer_registry_damage_all(obufs, region)
            IN
            /\ obufs' = [damaged EXCEPT ![buffer].buffer_damage = {},
                                        ![buffer].owner = "caller"]
            /\ calls' = <<<<"registry_damage_all", "output", region>>,
                          <<"on_done", "DONE", buffer>>>>
            /\ nDone' = nDone + 1
            /\ srv_commits' = srv_commits - 1
            /\ srv_cursor' = FALSE
            /\ sinceRes' = 0
            /\ UNCHANGED <<surface, render_cursors, clipVars, buffer, cursor_buffer,
                           have_buffer_info, should_start, shall_be_immediate,
                           have_cursor, output, cursor, pool, cursor_pool,
                           cbufs, nsurf, srv_init, status, nStart, nCommit,
                           overlap, presence, init_seen, stale0, reported>>

\* surface_handle_ready clearing the frame damage instead of the buffer damage
surface_handle_ready_clear_frame ==
    /\ Delivered
    /\ srv_commits > 0
    /\ ~srv_cursor
    /\ IF buffer = NULL
       THEN Crash
       ELSE LET region == obufs[buffer].frame_damage
                damaged == wv_buffer_registry_damage_all(obufs, region)
            IN
            /\ obufs' = [damaged EXCEPT ![buffer].frame_damage = {},
                                        ![buffer].owner = "caller"]
            /\ buffer' = NULL
            /\ calls' = <<<<"registry_damage_all", "output", region>>,
                          <<"on_done", "DONE", buffer>>>>
            /\ nDone' = nDone + 1
            /\ srv_commits' = srv_commits - 1
            /\ srv_cursor' = FALSE
            /\ sinceRes' = 0
            /\ UNCHANGED <<surface, render_cursors, clipVars, cursor_buffer,
                           have_buffer_info, should_start, shall_be_immediate,
                           have_cursor, output, cursor, pool, cursor_pool,
                           cbufs, nsurf, srv_init, status, nStart, nCommit,
                           overlap, presence, init_seen, stale0, reported>>

surface_handle_ready ==
    /\ Delivered
    /\ srv_commits > 0
    /\ ~srv_cursor
    /\ IF buffer = NULL
       THEN Crash
       ELSE LET region == obufs[buffer].frame_damage
                damaged == wv_buffer_registry_damage_all(obufs, region)
            IN
            /\ obufs' = [damaged EXCEPT ![buffer].buffer_damage = {},
                                        ![buffer].owner = "caller"]
            /\ buffer' = NULL
            /\ calls' = <<<<"registry_damage_all", "output", region>>,
                          <<"on_done", "DONE", buffer>>>>
            /\ nDone' = nDone + 1
            /\ srv_commits' = srv_commits - 1
            /\ srv_cursor' = FALSE
            /\ sinceRes' = 0
            /\ UNCHANGED <<surface, render_cursors, clipVars, cursor_buffer,
                           have_buffer_info, should_start, shall_be_immediate,
                           have_cursor, output, cursor, pool, cursor_pool,
                           cbufs, nsurf, srv_init, status, nStart, nCommit,
                           overlap, presence, init_seen, stale0, reported>>

FailureReasons == {"UNSPEC", "INVALID_BUFFER"}

\* surface_handle_failed recreating the surface whatever the reason
surface_handle_failed_always_recreate(reason) ==
    /\ Delivered
    /\ srv_commits > 0
    /\ IF buffer = NULL
       THEN Crash
       ELSE /\ obufs' = wv_buffer_pool_release(obufs, buffer, {})
            /\ buffer' = NULL
            /\ \E ok \in BOOLEAN :
                  /\ ext_screencopy_init_surface(ok)
                  /\ calls' = <<<<"pool_release", "output", buffer>>>>
                              \o InitSurfaceCalls(ok)
                              \o <<<<"on_done", "FAILED", NULL>>>>
            /\ nDone' = nDone + 1
            /\ sinceRes' = 0
            /\ UNCHANGED <<render_cursors, clipVars, cursor_buffer, have_buffer_info,
                           should_start, shall_be_immediate, have_cursor,
                           output, cursor, pool, cursor_pool, cbufs, status,
                           nStart, nCommit, overlap, presence, stale0,
                           reported>>

surface_handle_failed(reason) ==
    /\ Delivered
    /\ srv_commits > 0
    /\ IF buffer = NULL
       THEN Crash
       ELSE /\ obufs' = wv_buffer_pool_release(obufs, buffer, {})
            /\ buffer' = NULL
            /\ IF reason = "INVALID_BUFFER"
               THEN \E ok \in BOOLEAN :
                      /\ ext_screencopy_init_surface(ok)
                      /\ calls' = <<<<"pool_release", "output", buffer>>>>
                                  \o InitSurfaceCalls(ok)
                                  \o <<<<"on_done", "FAILED", NULL>>>>
               ELSE /\ calls' = <<<<"pool_release", "output", buffer>>,
                                  <<"on_done", "FAILED", NULL>>>>
                    /\ srv_commits' = srv_commits - 1
                    /\ srv_cursor' = FALSE
                    /\ UNCHANGED <<surface, nsurf, srv_init, init_seen>>
            /\ nDone' = nDone + 1
            /\ sinceRes' = 0
            /\ UNCHANGED <<render_cursors, clipVars, cursor_buffer, have_buffer_info,
                           should_start, shall_be_immediate, have_cursor,
                           output, cursor, pool, cursor_pool, cbufs, status,
                           nStart, nCommit, overlap, presence, stale0,
                           reported>>

surface_handle_damage(r) ==
    /\ Delivered
    /\ srv_commits > 0
    /\ IF buffer = NULL
       THEN Crash
       ELSE /\ obufs' = wv_buffer_damage_rect(obufs, buffer, r)
            /\ reported' = reported \cup Cells(r)
            /\ calls' = <<>>
            /\ UNCHANGED <<sessVars, clipVars, pool, cursor_pool, cbufs, srvVars, status,
                           nStart, nCommit, nDone, overlap, sinceRes, presence,
                           init_seen, stale0>>

surface_handle_cursor_info(has_damage) ==
    /\ Delivered
    /\ srv_commits > 0
    /\ srv_cursor
    /\ IF cursor_buffer = NULL
       THEN Crash
       ELSE IF cbufs[cursor_buffer].owner # "session"
       THEN Crash
       ELSE LET c == cursor_buffer
                hit == IF has_damage THEN wv_buffer_damage_whole(cbufs, c)
                       ELSE cbufs
                region == hit[c].frame_damage
                damaged == wv_buffer_registry_damage_all_cursor(hit, region)
                cleared == [damaged EXCEPT ![c].buffer_damage = FALSE]
            IN
            /\ cbufs' = wv_buffer_pool_release(cleared, c, FALSE)
            /\ calls' = <<<<"registry_damage_all", "cursor", region>>,
                          <<"pool_release", "cursor", c>>>>
            /\ srv_cursor' = FALSE
            /\ UNCHANGED <<sessVars, clipVars, pool, cursor_pool, obufs, nsurf, srv_init,
                           srv_commits, status, nStart, nCommit, nDone, overlap,
                           sinceRes, presence, init_seen, stale0, reported>>

surface_handle_cursor_enter ==
    /\ Delivered
    /\ have_cursor' = TRUE
    /\ presence' = "enter"
    /\ calls' = <<>>
    /\ UNCHANGED <<surface, render_cursors, clipVars, buffer, cursor_buffer,
                   have_buffer_info, should_start, shall_be_immediate, output,
                   cursor, poolVars, srvVars, status, nStart, nCommit, nDone,
                   overlap, sinceRes, init_seen, stale0, reported>>

surface_handle_cursor_leave ==
    /\ Delivered
    /\ have_cursor' = FALSE
    /\ presence' = "leave"
    /\ calls' = <<>>
    /\ UNCHANGED <<surface, render_cursors, clipVars, buffer, cursor_buffer,
                   have_buffer_info, should_start, shall_be_immediate, output,
                   cursor, poolVars, srvVars, status, nStart, nCommit, nDone,
                   overlap, sinceRes, init_seen, stale0, reported>>

surface_handle_commit_time ==
    /\ Delivered
    /\ srv_commits > 0
    /\ calls' = <<>>
    /\ UNCHANGED <<sessVars, clipVars, poolVars, srvVars, status, nStart, nCommit, nDone,
                   overlap, sinceRes, presence, init_seen, stale0, reported>>

ext_screencopy_destroy ==
    /\ status = "live"
    /\ status' = "destroyed"
    /\ obufs' = IF buffer # NULL THEN wv_buffer_pool_release(obufs, buffer, {})
                ELSE obufs
    /\ calls' = (IF surface # NULL THEN <<<<"surface_destroy", surface>>>>
                 ELSE <<>>)
                \o (IF buffer # NULL THEN <<<<"pool_release", "output", buffer>>>>
                    ELSE <<>>)
    /\ UNCHANGED <<sessVars, clipVars, pool, cursor_pool, cbufs, srvVars, nStart, nCommit,
                   nDone, overlap, sinceRes, presence, init_seen, stale0,
                   reported>>

\* the caller hands a delivered frame back to the output pool
caller_release(b) ==
    /\ status = "live"
    /\ obufs[b].owner = "caller"
    /\ obufs' = wv_buffer_pool_release(obufs, b, {})
    /\ calls' = <<>>
    /\ UNCHANGED <<sessVars, clipVars, pool, cursor_pool, cbufs, srvVars, status, nStart,
                   nCommit, nDone, overlap, sinceRes, presence, init_seen,
                   stale0, reported>>

\* The capture cycle: the caller's start/stop, the compositor's negotiation,
\* cursor and resolution events, and the caller returning delivered frames.
Next ==
    \/ nStart < MaxStarts /\ \E immediate \in BOOLEAN : ext_screencopy_start(immediate)
    \/ ext_screencopy_stop
    \/ surface_handle_reconfig
    \/ surface_handle_init_done
    \/ \E t \in Transforms : surface_handle_transform(t)
    \/ surface_handle_ready
    \/ \E reason \in FailureReasons : surface_handle_failed(reason)
    \/ \E has_damage \in BOOLEAN : surface_handle_cursor_info(has_damage)
    \/ surface_handle_cursor_enter
    \/ surface_handle_cursor_leave
    \/ surface_handle_commit_time
    \/ \E b \in OutBufs : caller_release(b)

Spec == Init /\ [][Next]_vars

\* The capture cycle with the compositor's damage events, cursor absent.
NextDamage ==
    \/ nStart < MaxStarts /\ \E immediate \in BOOLEAN : ext_screencopy_start(immediate)
    \/ surface_handle_reconfig
    \/ surface_handle_init_done
    \/ surface_handle_ready
    \/ \E reason \in FailureReasons : surface_handle_failed(reason)
    \/ \E r \in DamageRects : surface_handle_damage(r)
    \/ \E b \in OutBufs : caller_release(b)

SpecDamage == Init /\ [][NextDamage]_vars

\* The capture cycle with the caller tearing the session down at any point.
NextDestroy ==
    \/ Next
    \/ ext_screencopy_destroy

SpecDestroy == Init /\ [][NextDestroy]_vars

\* The negotiation in full: the compositor reports buffer constraints for the
\* output and the cursor domain before each init_done; cursor absent.
NextNegotiation ==
    \/ nStart < MaxStarts /\ \E immediate \in BOOLEAN : ext_screencopy_start(immediate)
    \/ surface_handle_reconfig
    \/ \E type \in BufferTypes, g \in Geoms : surface_handle_buffer_info(type, g)
    \/ \E type \in BufferTypes, g \in Geoms : surface_handle_cursor_buffer_info(type, g)
    \/ surface_handle_init_done
    \/ surface_handle_ready
    \/ \E reason \in FailureReasons : surface_handle_failed(reason)
    \/ \E b \in OutBufs : caller_release(b)

SpecNegotiation == Init /\ [][NextNegotiation]_vars

\* Capture cycles that succeed, with both damage and cursor events.
NextCapture ==
    \/ nStart < MaxStarts /\ \E immediate \in BOOLEAN : ext_screencopy_start(immediate)
    \/ surface_handle_init_done
    \/ \E r \in DamageRects : surface_handle_damage(r)
    \/ \E has_damage \in BOOLEAN : surface_handle_cursor_info(has_damage)
    \/ surface_handle_cursor_enter
    \/ surface_handle_cursor_leave
    \/ surface_handle_ready
    \/ \E b \in OutBufs : caller_release(b)

SpecCapture == Init /\ [][NextCapture]_vars

\* The capture cycle with every event that touches the output buffer:
\* damage, transform, commit_time, ready and failed, across reconfig and
\* surface recreation; cursor absent.
NextEvents ==
    \/ NextDamage
    \/ \E t \in Transforms : surface_handle_transform(t)
    \/ surface_handle_commit_time

SpecEvents == Init /\ [][NextEvents]_vars

\* Before ext_screencopy_create: no session, no pools, no surface.
InitCreate ==
    /\ surface = NULL
    /\ render_cursors = FALSE
    /\ buffer = NULL
    /\ cursor_buffer = NULL
    /\ have_buffer_info = FALSE
    /\ should_start = FALSE
    /\ shall_be_immediate = FALSE
    /\ have_cursor = FALSE
    /\ output = 0
    /\ cursor = 0
    /\ pool = NoPool
    /\ cursor_pool = NoPool
    /\ obufs = [b \in OutBufs |-> FreshBuf]
    /\ cbufs = [c \in CurBufs |-> FreshCursorBuf]
    /\ nsurf = 0
    /\ srv_init = FALSE
    /\ srv_commits = 0
    /\ srv_cursor = FALSE
    /\ status = "none"
    /\ calls = <<>>
    /\ nStart = 0
    /\ nCommit = 0
    /\ nDone = 0
    /\ overlap = FALSE
    /\ sinceRes = 0
    /\ presence = "none"
    /\ init_seen = FALSE
    /\ stale0 = {}
    /\ reported = {}
    /\ data_control_init

\* how an allocation ended, and whether a handle passed on is a live one
Outcome(ok) == IF ok THEN "ok" ELSE "NULL"

\* The four allocations of ext_screencopy_create succeed or fail as the
\* arguments say. The test after the cursor pool is created reads self->pool,
\* which is known to be present at that point, so it never branches.
ext_screencopy_create(calloc_ok, pool_ok, cursor_pool_ok, surface_ok, render_cursor) ==
    /\ status = "none"
    /\ LET allocs == <<<<"calloc", Outcome(calloc_ok)>>,
                       <<"pool_create", "output", Outcome(pool_ok)>>,
                       <<"pool_create", "cursor", Outcome(cursor_pool_ok)>>>>
       IN
       IF ~calloc_ok
       THEN /\ status' = "failed"
            /\ calls' = <<allocs[1], <<"return", "NULL">>>>
            /\ UNCHANGED <<sessVars, clipVars, poolVars, srvVars, init_seen>>
       ELSE IF ~pool_ok
       THEN /\ status' = "failed"
            /\ calls' = <<allocs[1], allocs[2], <<"free", "self">>,
                          <<"return", "NULL">>>>
            /\ UNCHANGED <<sessVars, clipVars, poolVars, srvVars, init_seen>>
       ELSE /\ ext_screencopy_init_surface(surface_ok)
            /\ IF surface_ok
               THEN /\ status' = "live"
                    /\ render_cursors' = render_cursor
                    /\ pool' = 0
                    /\ cursor_pool' = IF cursor_pool_ok THEN 0 ELSE NoPool
                    /\ calls' = allocs \o InitSurfaceCalls(TRUE)
                                \o <<<<"return", "session">>>>
               ELSE \* surface_failure: the cursor pool is destroyed even
                    \* when it is NULL, which the pool code may not survive
                    /\ status' \in (IF cursor_pool_ok THEN {"failed"}
                                    ELSE {"failed", "crashed"})
                    /\ calls' = allocs \o InitSurfaceCalls(FALSE)
                                \o <<<<"pool_destroy", "cursor",
                                       Outcome(cursor_pool_ok)>>,
                                     <<"pool_destroy", "output", "ok">>,
                                     <<"free", "self">>, <<"return", "NULL">>>>
                    /\ UNCHANGED <<render_cursors, pool, cursor_pool>>
            /\ UNCHANGED <<clipVars, buffer, cursor_buffer, have_buffer_info,
                           should_start, shall_be_immediate, have_cursor,
                           output, cursor, obufs, cbufs>>
    /\ UNCHANGED <<nStart, nCommit, nDone, overlap, sinceRes, presence,
                   stale0, reported>>

\* The whole life of a session: created, driven, torn down.
NextCreate ==
    \/ \E calloc_ok, pool_ok, cursor_pool_ok, surface_ok, render_cursor \in BOOLEAN :
          ext_screencopy_create(calloc_ok, pool_ok, cursor_pool_ok, surface_ok,
                                render_cursor)
    \/ NextDestroy

SpecCreate == InitCreate /\ [][NextCreate]_vars

\* ------------------------------------------------------------ the clipboard
\* Every clipboard handler leaves the capture session alone.
screencopyVars == <<sessVars, poolVars, srvVars, status, obsVars>>

Offers == {1}

\* an offer announces a mime type; the first matching one is remembered
data_control_offer(id, matches) ==
    /\ status = "live"
    /\ data_control' = IF data_control.offer = NULL /\ matches
                       THEN [data_control EXCEPT !.offer = id]
                       ELSE data_control
    /\ UNCHANGED <<sources, transfers, send_log, screencopyVars>>

NoTransfer == [offer |-> NULL, ctx |-> "none", handler |-> "none",
               mem_fp |-> "NULL", written |-> 0, mem_size |-> 0,
               cut_text |-> FALSE, fd_log |-> <<>>]

\* receive_data: the record of the transfer it sets up, or fails to
receive_data(offer, pipe_ok, calloc_ok, memstream_ok, handler_ok) ==
    LET piped == <<<<"pipe", "rw">>>>
        asked == piped \o <<<<"receive", "w">>, <<"close", "w">>>>
    IN
    IF ~pipe_ok THEN NoTransfer
    ELSE IF ~calloc_ok
    THEN [NoTransfer EXCEPT !.fd_log = piped \o <<<<"close", "r">>, <<"close", "w">>>>]
    ELSE IF ~memstream_ok
    THEN [NoTransfer EXCEPT !.ctx = "freed",
                            !.fd_log = asked \o <<<<"close", "r">>>>]
    ELSE IF ~handler_ok
    THEN \* the context is freed with its memory stream still open
         [NoTransfer EXCEPT !.ctx = "freed", !.mem_fp = "open",
                            !.fd_log = asked \o <<<<"close", "r">>>>]
    ELSE [NoTransfer EXCEPT !.offer = offer, !.ctx = "live",
                            !.handler = "started", !.mem_fp = "open",
                            !.fd_log = asked]

\* the selection (or primary selection) changed to the remembered offer
data_control_device_selection(id, pipe_ok, calloc_ok, memstream_ok, handler_ok) ==
    /\ status = "live"
    /\ IF id # NULL /\ data_control.offer = id
       THEN /\ transfers' = Append(transfers,
                   receive_data(id, pipe_ok, calloc_ok, memstream_ok, handler_ok))
            /\ data_control' = [data_control EXCEPT !.offer = NULL]
       ELSE UNCHANGED <<data_control, transfers>>
    /\ UNCHANGED <<sources, send_log, screencopyVars>>

data_control_device_primary_selection(id, pipe_ok, calloc_ok, memstream_ok, handler_ok) ==
    /\ status = "live"
    /\ IF id # NULL /\ data_control.offer = id
       THEN /\ transfers' = Append(transfers,
                   receive_data(id, pipe_ok, calloc_ok, memstream_ok, handler_ok))
            /\ data_control' = [data_control EXCEPT !.offer = NULL]
       ELSE UNCHANGED <<data_control, transfers>>
    /\ UNCHANGED <<sources, send_log, screencopyVars>>

ReadResults == {"data", "eof", "error"}

\* on_receive closing the descriptor itself when the stream ends
on_receive_closing(t, ret) ==
    /\ status = "live"
    /\ transfers[t].handler = "started"
    /\ transfers' =
          IF ret = "data"
          THEN [transfers EXCEPT ![t].written = @ + 1]
          ELSE [transfers EXCEPT
                   ![t].mem_fp = "NULL",
                   ![t].mem_size = transfers[t].written,
                   ![t].cut_text = transfers[t].written > 0,
                   ![t].fd_log = Append(@, <<"close", "r">>),
                   ![t].handler = "stopped"]
    /\ UNCHANGED <<data_control, sources, send_log, screencopyVars>>

\* on_receive: one read of the pipe; a read of nothing or an error ends the
\* stream, closes the memory stream (which sets mem_size), forwards the text
\* if there is any, and stops the handler
on_receive(t, ret) ==
    /\ status = "live"
    /\ transfers[t].handler = "started"
    /\ transfers' =
          IF ret = "data"
          THEN [transfers EXCEPT ![t].written = @ + 1]
          ELSE [transfers EXCEPT
                   ![t].mem_fp = "NULL",
                   ![t].mem_size = transfers[t].written,
                   ![t].cut_text = transfers[t].written > 0,
                   ![t].handler = "stopped"]
    /\ UNCHANGED <<data_control, sources, send_log, screencopyVars>>

\* the event loop drops a stopped handler and runs its destructor once
destroy_receive_context(t) ==
    /\ status = "live"
    /\ transfers[t].handler = "stopped"
    /\ transfers' = [transfers EXCEPT
                        ![t].mem_fp = "NULL",
                        ![t].fd_log = Append(@, <<"close", "r">>),
                        ![t].ctx = "freed",
                        ![t].handler = "none"]
    /\ UNCHANGED <<data_control, sources, send_log, screencopyVars>>

\* set_selection on the struct dc with the compositor's sources srcs: the
\* struct and sources afterwards, and the source returned
set_selection(dc, srcs, create_ok) ==
    IF ~dc.manager
    THEN [dc |-> dc, srcs |-> srcs, selection |-> NULL]
    ELSE IF ~create_ok
    THEN [dc |-> [dc EXCEPT !.cb_data = NULL], srcs |-> srcs, selection |-> NULL]
    ELSE LET id == srcs.created + 1
         IN [dc |-> dc,
             srcs |-> [created |-> id, live |-> srcs.live \cup {id}],
             selection |-> id]

Lengths == {0, 1}

\* data_control_to_clipboard: replace the paste buffer and take both selections
data_control_to_clipboard(len, malloc_ok, create_ok, create_primary_ok) ==
    /\ status = "live"
    /\ IF len = 0
       THEN UNCHANGED <<data_control, sources>>
       ELSE IF ~malloc_ok
       THEN /\ data_control' = [data_control EXCEPT !.cb_data = NULL]
            /\ UNCHANGED sources
       ELSE LET copied == [data_control EXCEPT !.cb_data = 1, !.cb_len = len]
                first == set_selection(copied, sources, create_ok)
                dc1 == [first.dc EXCEPT !.selection = first.selection]
                second == set_selection(dc1, first.srcs, create_primary_ok)
            IN /\ data_control' = [second.dc EXCEPT
                                      !.primary_selection = second.selection]
               /\ sources' = second.srcs
    /\ UNCHANGED <<transfers, send_log, screencopyVars>>

WriteResults == {"complete", "partial", "failed"}

\* data_control_source_send: one write of the paste buffer, then the close;
\* without a paste buffer the assertion ends the process first
data_control_source_send(src, written) ==
    /\ status = "live"
    /\ src \in sources.live
    /\ IF data_control.cb_data = NULL
       THEN /\ status' = "crashed"
            /\ send_log' = <<>>
       ELSE /\ send_log' = <<<<"write", written>>, <<"close", "fd">>>>
            /\ UNCHANGED status
    /\ UNCHANGED <<data_control, sources, transfers, sessVars, poolVars,
                   srvVars, obsVars>>

\* the compositor dropped the source: forget it wherever it is held, destroy it
data_control_source_cancelled(src) ==
    /\ status = "live"
    /\ src \in sources.live
    /\ data_control' =
          [data_control EXCEPT
              !.selection = IF @ = src THEN NULL ELSE @,
              !.primary_selection = IF @ = src THEN NULL ELSE @]
    /\ sources' = [sources EXCEPT !.live = @ \ {src}]
    /\ UNCHANGED <<transfers, send_log, screencopyVars>>

\* Clipboard traffic in both directions: offers and selections from the
\* compositor feeding pipe transfers, text from the remote side published as
\* data sources that the compositor asks to send or cancels.
NextClipboard ==
    \/ \E id \in Offers, matches \in BOOLEAN : data_control_offer(id, matches)
    \/ /\ Len(transfers) < MaxTransfers
       /\ \E id \in Offers \cup {NULL},
             pipe_ok, calloc_ok, memstream_ok, handler_ok \in BOOLEAN :
             data_control_device_selection(id, pipe_ok, calloc_ok,
                                           memstream_ok, handler_ok)
    \/ /\ Len(transfers) < MaxTransfers
       /\ \E id \in Offers \cup {NULL},
             pipe_ok, calloc_ok, memstream_ok, handler_ok \in BOOLEAN :
             data_control_device_primary_selection(id, pipe_ok, calloc_ok,
                                                   memstream_ok, handler_ok)
    \/ \E t \in DOMAIN transfers, ret \in ReadResults :
          /\ ret = "data" => transfers[t].written < MaxChunks
          /\ on_receive(t, ret)
    \/ \E t \in DOMAIN transfers : destroy_receive_context(t)
    \/ \E len \in Lengths, malloc_ok, create_ok, create_primary_ok \in BOOLEAN :
          /\ (len # 0 /\ malloc_ok /\ (create_ok \/ create_primary_ok)) =>
                sources.created + 2 <= MaxSources
          /\ data_control_to_clipboard(len, malloc_ok, create_ok, create_primary_ok)
    \/ \E src \in sources.live, written \in WriteResults :
          data_control_source_send(src, written)
    \/ \E src \in sources.live : data_control_source_cancelled(src)

SpecClipboard == Init /\ [][NextClipboard]_vars

\* ------------------------------------------------------------- properties
Count(cs, op) == Cardinality({i \in 1..Len(cs) : cs[i][1] = op})
HasCall(cs, op) == \E i \in 1..Len(cs) : cs[i][1] = op
Has(cs, call) == \E i \in 1..Len(cs) : cs[i] = call

Held(bufs) == {b \in DOMAIN bufs : bufs[b].owner = "session"}

\* nothing pending, nothing in flight, nothing unresolved at the compositor
Quiescent ==
    /\ status = "live"
    /\ buffer = NULL
    /\ ~should_start
    /\ srv_commits = 0

C2_AtMostOneOutstanding ==
    ~overlap => /\ Cardinality(Held(obufs)) <= 1
                /\ Cardinality(Held(cbufs)) <= 1

\* C3: a start before negotiation completes schedules nothing and records
\* pending_start = TRUE and pending_immediate = its argument, overwriting an
\* earlier recorded value; init_done with a start pending commits exactly one
\* capture whose IMMEDIATE flag is the recorded value and clears both flags.
C3_DeferredStart ==
    [][/\ \A i \in BOOLEAN :
            (ext_screencopy_start(i) /\ ~have_buffer_info) =>
                /\ should_start'
                /\ shall_be_immediate' = i
                /\ calls' = <<>>
                /\ nCommit' = nCommit
                /\ buffer' = buffer
       /\ (surface_handle_init_done /\ should_start) =>
                /\ Count(calls', "commit") = 1
                /\ Has(calls', <<"commit", shall_be_immediate, render_cursors>>)
                /\ nCommit' = nCommit + 1
                /\ ~should_start'
                /\ ~shall_be_immediate'
      ]_vars

\* start(TRUE) or start(FALSE) twice before negotiation, then init_done: one
\* commit, not immediate
C3_Witness ==
    /\ nStart = 2
    /\ nCommit = 1
    /\ nsurf = 1
    /\ have_buffer_info
    /\ ~should_start
    /\ \E rc \in BOOLEAN : Has(calls, <<"commit", FALSE, rc>>)

\* C10 (as stated): no two commits without a ready, failed or reconfig event
\* between them, in any execution.
C10_OneCommitPerResolution == sinceRes <= 1

\* C10 (amended): for a caller that issues each start only after the
\* completion callback of the previous one, no two commits occur without a
\* ready, failed or reconfig event between them.
C10_OneCommitPerResolutionSequential == ~overlap => sinceRes <= 1

\* a second commit, after the first was resolved
C10_Witness ==
    /\ ~overlap
    /\ nCommit >= 2
    /\ sinceRes = 1

\* C4: after a failed signal with reason "invalid buffer" the surface handle is
\* recreated and negotiation counts as not complete: on a surface whose
\* init_done has not been handled have_buffer_info is FALSE, so that a start is
\* recorded as pending, and no commit is sent on such a surface.
C4_RecreationResetsNegotiation ==
    /\ (surface # NULL /\ ~init_seen) => ~have_buffer_info
    /\ HasCall(calls, "commit") => init_seen

\* C5: after a failure with reason "invalid buffer" the session has a surface
\* handle, and it is not the handle that failed, so that the next start finds
\* a handle to commit on; also when the manager fails to create the replacement.
C5_RecoveredSurfaceValid ==
    /\ \A i \in 1..Len(calls) :
          calls[i][1] = "surface_destroy" =>
              (surface # NULL /\ surface # calls[i][2])
    /\ surface # NULL

\* C6: handling failed with an output buffer in flight releases that buffer to
\* the output pool exactly once, leaves the session without an in-flight
\* buffer, and calls on_done once, with FAILED and no buffer; for a reason other
\* than "invalid buffer" the surface handle, have_buffer_info, the pending
\* flags and have_cursor stay as they were.
C6_FailedReleasesAndReports ==
    [][\A reason \in FailureReasons :
          (surface_handle_failed(reason) /\ buffer # NULL) =>
              /\ Count(calls', "pool_release") = 1
              /\ Has(calls', <<"pool_release", "output", buffer>>)
              /\ obufs'[buffer].owner = "pool"
              /\ buffer' = NULL
              /\ Count(calls', "on_done") = 1
              /\ Has(calls', <<"on_done", "FAILED", NULL>>)
              /\ nDone' = nDone + 1
              /\ reason # "INVALID_BUFFER" =>
                    UNCHANGED <<surface, have_buffer_info, should_start,
                                shall_be_immediate, have_cursor>>
      ]_vars

\* a failure with another reason was handled: buffer back in the pool, the
\* first surface still in place
C6_Witness ==
    /\ calls = <<<<"pool_release", "output", 1>>, <<"on_done", "FAILED", NULL>>>>
    /\ obufs[1].owner = "pool"
    /\ buffer = NULL
    /\ surface = 1
    /\ have_cursor

\* C9: a commit acquires and attaches a cursor buffer exactly when the last
\* cursor presence signal the session received was "enter" (none at first), and
\* have_cursor is changed by no handler other than cursor_enter and
\* cursor_leave.
C9_CursorFollowsPresence ==
    [][/\ HasCall(calls', "commit") =>
            /\ Count(calls', "attach_cursor_buffer") = 1 <=> presence' = "enter"
            /\ Has(calls', <<"pool_acquire", "cursor", cursor_buffer'>>)
                  <=> presence' = "enter"
            /\ Count(calls', "attach_cursor_buffer") <= 1
       /\ have_cursor' # have_cursor =>
            (surface_handle_cursor_enter \/ surface_handle_cursor_leave)
       /\ have_cursor' <=> presence' = "enter"
      ]_vars

\* a commit with the cursor attached on a recreated surface, after a reconfig,
\* with the output buffer of an earlier cycle still with the caller
C9_Witness ==
    /\ HasCall(calls, "commit")
    /\ HasCall(calls, "attach_cursor_buffer")
    /\ presence = "enter"
    /\ nsurf = 2
    /\ \E b \in OutBufs : obufs[b].owner = "caller"

\* a commit without the cursor after the cursor left
C9_WitnessLeft ==
    /\ HasCall(calls, "commit")
    /\ ~HasCall(calls, "attach_cursor_buffer")
    /\ presence = "leave"

\* C7: handling ready hands the in-flight buffer to on_done with DONE and
\* empties the session's reference; no commit is sent by the handler, and for
\* a caller that issues each start after the previous callback every commit
\* belongs to a start that has not completed. While a buffer is with the
\* caller the session neither releases nor delivers it again, and its frame
\* damage stays as delivered, until the caller returns it.
C7_ReadyHandsOver ==
    [][/\ (surface_handle_ready /\ buffer # NULL) =>
              /\ calls'[Len(calls')] = <<"on_done", "DONE", buffer>>
              /\ Count(calls', "on_done") = 1
              /\ obufs'[buffer].owner = "caller"
              /\ buffer' = NULL
              /\ ~HasCall(calls', "commit")
              /\ nCommit' = nCommit
       /\ nCommit' <= nStart'
       /\ (nCommit' > nCommit /\ ~overlap') => nStart' = nDone' + 1
       /\ \A b \in OutBufs :
             obufs[b].owner = "caller" =>
                \/ caller_release(b)
                \/ /\ obufs'[b].owner = "caller"
                   /\ obufs'[b].frame_damage = obufs[b].frame_damage
                   /\ buffer' # b
                   /\ ~Has(calls', <<"pool_release", "output", b>>)
                   /\ ~Has(calls', <<"on_done", "DONE", b>>)
                   /\ ~Has(calls', <<"pool_acquire", "output", b>>)
      ]_vars

\* a damaged frame is with the caller while the next capture is in flight
C7_Witness ==
    /\ \E b \in OutBufs : obufs[b].owner = "caller" /\ obufs[b].frame_damage # {}
    /\ buffer # NULL
    /\ reported # {}
    /\ ~overlap

C11_DestroyReleasesAll ==
    status = "destroyed" =>
       /\ surface # NULL => Has(calls, <<"surface_destroy", surface>>)
       /\ buffer # NULL =>
             /\ obufs[buffer].owner = "pool"
             /\ Count(calls, "pool_release") >= 1
       /\ cursor_buffer # NULL => cbufs[cursor_buffer].owner # "session"
       /\ ~HasCall(calls, "on_done")


\* C12: create fails whenever the allocation of the session, the output pool,
\* the cursor pool or the surface handle fails; on a failure every resource
\* already constructed is released exactly once; and a returned session has
\* its output pool, its cursor pool and its surface handle.
C12_CreateAllOrNothing ==
    LET failedAlloc == \/ Has(calls, <<"calloc", "NULL">>)
                       \/ Has(calls, <<"pool_create", "output", "NULL">>)
                       \/ Has(calls, <<"pool_create", "cursor", "NULL">>)
                       \/ \E i \in 1..Len(calls) :
                             calls[i][1] = "capture_output" /\ calls[i][2] = NULL
        N(call) == Cardinality({i \in 1..Len(calls) : calls[i] = call})
    IN
    HasCall(calls, "return") =>
       /\ failedAlloc => Has(calls, <<"return", "NULL">>)
       /\ Has(calls, <<"return", "session">>) =>
             /\ pool # NoPool
             /\ cursor_pool # NoPool
             /\ surface # NULL
       /\ Has(calls, <<"return", "NULL">>) =>
             /\ Has(calls, <<"calloc", "ok">>) => N(<<"free", "self">>) = 1
             /\ Has(calls, <<"pool_create", "output", "ok">>) =>
                   N(<<"pool_destroy", "output", "ok">>) = 1
             /\ Has(calls, <<"pool_create", "cursor", "ok">>) =>
                   N(<<"pool_destroy", "cursor", "ok">>) = 1
             /\ N(<<"pool_destroy", "cursor", "NULL">>) = 0


\* C13: start reports rejection when the session has no surface handle and
\* acceptance otherwise; it never attaches a buffer to or commits on an absent
\* surface handle.
C13_StartRejectsWithoutSurface ==
    [][\A immediate \in BOOLEAN :
          ext_screencopy_start(immediate) =>
             /\ surface = NULL =>
                   /\ nStart' = nStart
                   /\ status' = "live"
                   /\ ~should_start'
                   /\ ~HasCall(calls', "attach_buffer")
                   /\ ~HasCall(calls', "commit")
             /\ surface # NULL => nStart' = nStart + 1]_vars


\* C14: a reconfig closes the negotiation: from the reconfig until the next
\* init_done no commit is issued, a start in that window is only recorded as
\* pending, and the pending start is committed by that init_done.
C14_ReconfigForcesRenegotiation ==
    [][/\ surface_handle_reconfig => ~have_buffer_info'
       /\ ~have_buffer_info /\ have_buffer_info' => surface_handle_init_done
       /\ ~have_buffer_info /\ nCommit' # nCommit => surface_handle_init_done
       /\ \A immediate \in BOOLEAN :
             ext_screencopy_start(immediate) /\ ~have_buffer_info =>
                /\ should_start'
                /\ ~HasCall(calls', "commit")
       /\ surface_handle_init_done /\ should_start /\ status' = "live" =>
             /\ nCommit' = nCommit + 1
             /\ Count(calls', "commit") = 1]_vars

\* a start made after a reconfig of the first surface was committed by the
\* init_done that ended the renegotiation
C14_Witness ==
    /\ nsurf = 1
    /\ nDone = 1
    /\ nStart = 2
    /\ nCommit = 2
    /\ ~overlap
    /\ HasCall(calls, "pool_resize")
    /\ HasCall(calls, "commit")


\* C15 (first part): pools are resized only by init_done; each init_done
\* resizes the output pool and the cursor pool once each, with the geometry
\* last stored by that domain's buffer_info, before any commit it issues; no
\* other operation resizes a pool.
C15_ResizeOnlyAtInitDone ==
    [][/\ surface_handle_init_done /\ status' = "live" =>
             /\ calls'[1] = <<"pool_resize", "output", output>>
             /\ calls'[2] = <<"pool_resize", "cursor", cursor>>
             /\ Count(calls', "pool_resize") = 2
             /\ pool' = output
             /\ cursor_pool' = cursor
       /\ ~surface_handle_init_done =>
             /\ ~HasCall(calls', "pool_resize")
             /\ pool' = pool
             /\ cursor_pool' = cursor_pool
       /\ \A g \in Geoms :
             /\ surface_handle_buffer_info("WL_SHM", g) => output' = g
             /\ surface_handle_cursor_buffer_info("WL_SHM", g) => cursor' = g
       /\ output' # output =>
             \E g \in Geoms : surface_handle_buffer_info("WL_SHM", g)
       /\ cursor' # cursor =>
             \E g \in Geoms : surface_handle_cursor_buffer_info("WL_SHM", g)]_vars

\* C15: pools are resized only by init_done, once each per init_done with the
\* last reported geometry and before the pending start is committed, so every
\* commit on a surface uses pools resized after that surface's init_done.
C15_CommitUsesResizedPool ==
    [][/\ surface_handle_init_done /\ status' = "live" =>
             /\ calls'[1] = <<"pool_resize", "output", output>>
             /\ calls'[2] = <<"pool_resize", "cursor", cursor>>
             /\ Count(calls', "pool_resize") = 2
       /\ ~surface_handle_init_done => ~HasCall(calls', "pool_resize")
       /\ nCommit' # nCommit => init_seen']_vars


C17_CursorBufferReleasedOnce ==
    /\ status = "live" /\ srv_commits = 0 => Held(cbufs) = {}
    /\ \A c \in CurBufs :
          /\ cbufs[c].owner # "caller"
          /\ Cardinality({i \in 1..Len(calls) :
                            calls[i] = <<"pool_release", "cursor", c>>}) <= 1
    /\ srv_cursor /\ status = "live" =>
          /\ cursor_buffer # NULL
          /\ cbufs[cursor_buffer].owner = "session"


\* C18: with a compositor that sends transform, damage, ready and failed only
\* for a commit it has not resolved, and a caller that starts a capture only
\* after the previous one's callback, the output buffer is present whenever
\* one of these events can arrive, so no handler fails its assertion or
\* damages an absent buffer, also after a reconfig or a surface recreation.
C18_BufferPresentForEvents ==
    ~overlap =>
       /\ status = "live" /\ surface # NULL /\ srv_commits > 0 =>
             /\ buffer # NULL
             /\ obufs[buffer].owner = "session"
       /\ status = "crashed" => surface = NULL

\* a damage and a transform event handled for a commit on a recreated surface
\* whose negotiation is still open
C18_Witness ==
    /\ ~overlap
    /\ nsurf = 2
    /\ srv_init
    /\ reported # {}
    /\ HasCall(calls, "nvnc_fb_set_transform")
    /\ status = "live"


\* C20: a start is pending only while the negotiation is incomplete, and the
\* pending immediate flag is set only while a start is pending; a later start
\* leaves exactly one start pending, and only init_done consumes it.
C20_PendingFlagsConsistent ==
    [][/\ should_start' => ~have_buffer_info'
       /\ shall_be_immediate' => should_start'
       /\ should_start /\ ~should_start' => surface_handle_init_done
       /\ surface_handle_init_done /\ should_start /\ status' = "live" =>
             Count(calls', "commit") = 1
       /\ \A immediate \in BOOLEAN :
             ext_screencopy_start(immediate) /\ should_start =>
                /\ should_start'
                /\ nCommit' = nCommit]_vars

\* an immediate start pending during a renegotiation, after a delivered frame
C20_Witness ==
    /\ should_start
    /\ shall_be_immediate
    /\ ~have_buffer_info
    /\ nDone >= 1
    /\ status = "live"


\* C19: every descriptor of a clipboard transfer is closed exactly once on
\* every path: receive_data closes the write end of its pipe once, after the
\* receive request; the read end is closed once, by receive_data when it gives
\* up early or else by the context destructor after the read loop, never by
\* both; and the source send handler writes once and closes its descriptor
\* once, whatever the write returned.
C19_DescriptorsClosedOnce ==
    /\ \A t \in DOMAIN transfers :
          LET log == transfers[t].fd_log
              N(e) == Cardinality({i \in DOMAIN log : log[i] = e})
              Pos(e) == CHOOSE i \in DOMAIN log : log[i] = e
          IN
          /\ N(<<"close", "w">>) = N(<<"pipe", "rw">>)
          /\ N(<<"receive", "w">>) = 1 =>
                Pos(<<"receive", "w">>) < Pos(<<"close", "w">>)
          /\ transfers[t].handler # "none" => N(<<"close", "r">>) = 0
          /\ transfers[t].handler = "none" =>
                N(<<"close", "r">>) = N(<<"pipe", "rw">>)
    /\ send_log # <<>> =>
          /\ Len(send_log) = 2
          /\ send_log[1][1] = "write"
          /\ send_log[2] = <<"close", "fd">>

\* a transfer that read data, forwarded it and was torn down by the
\* destructor, next to a send whose write was partial
C19_Witness ==
    /\ \E t \in DOMAIN transfers :
          /\ transfers[t].ctx = "freed"
          /\ transfers[t].cut_text
          /\ transfers[t].fd_log = <<<<"pipe", "rw">>, <<"receive", "w">>,
                                     <<"close", "w">>, <<"close", "r">>>>
    /\ send_log = <<<<"write", "partial">>, <<"close", "fd">>>>


\* C21: whenever a data source created by data_control_to_clipboard is alive,
\* the paste buffer cb_data is present, so the assertion of the send handler
\* never fails, whatever data_control_to_clipboard calls, cancelled events and
\* send events came before.
C21_PasteBufferWhileSourceLive ==
    /\ status = "live" /\ sources.live # {} => data_control.cb_data # NULL
    /\ status # "crashed"

====
